---------------------------- MODULE Spec2Model ----------------------------
(***************************************************************************)
(* Model of the sachy coordinate layer: Square (src/src/square.rs) and     *)
(* Bitboard (src/src/bitboard.rs).                                         *)
(*                                                                         *)
(* Conventions                                                             *)
(*   - a Square is its packed byte `val` (x in the upper nibble, y in the  *)
(*     lower nibble);                                                      *)
(*   - a char is its Unicode code point, a &str the sequence of its chars; *)
(*   - a Result is the record [ok, val, err]: Ok(v) carries v in val,      *)
(*     Err(e) carries the variant's name (or the message) in err;          *)
(*   - a u64 is the sequence of its 64 bits, least significant first: bit  *)
(*     i (0..63) is element i + 1.                                         *)
(***************************************************************************)
EXTENDS Integers, Sequences, FiniteSets

VARIABLES
    pc,     \* position of the caller: "call", "shown", "done", "board" or "printed"
    fn,     \* the operation called (last)
    arg,    \* its arguments, a tuple of integers
    ret,    \* the Result it returned
    retb,   \* the bool it returned (Bitboard::set / Bitboard::clear)
    text,   \* the String written by Display
    bits,   \* Bitboard.bits of the board operated on
    prev    \* Bitboard.bits as it was before the last operation

vars == <<pc, fn, arg, ret, retb, text, bits, prev>>

(***************************************************************************)
(* Bounds of the model.                                                    *)
(***************************************************************************)
\* longest input string handed to Square::from_string
MaxLen == 3
\* number of squares the Bitboard operations are called with
MaxSquares == 4

(***************************************************************************)
(* Machine integers.                                                       *)
(***************************************************************************)
\* largest u8
U8Max == 255
\* number of bits of a u64
U64Bits == 64

U8 == 0..U8Max

RECURSIVE BitAnd(_, _)
\* a & b on unsigned integers
BitAnd(a, b) ==
    IF a = 0 \/ b = 0 THEN 0
    ELSE (IF a % 2 = 1 /\ b % 2 = 1 THEN 1 ELSE 0) + 2 * BitAnd(a \div 2, b \div 2)

RECURSIVE BitOr(_, _)
\* a | b on unsigned integers
BitOr(a, b) ==
    IF a = 0 THEN b
    ELSE IF b = 0 THEN a
    ELSE (IF a % 2 = 1 \/ b % 2 = 1 THEN 1 ELSE 0) + 2 * BitOr(a \div 2, b \div 2)

\* x << 4 on a u8: the bits shifted out are dropped
Shl4(x) == (x * 16) % (U8Max + 1)

\* v >> 4 on a u8
Shr4(v) == v \div 16

(***************************************************************************)
(* Result<_, _>.                                                           *)
(***************************************************************************)
Ok(v) == [ok |-> TRUE, val |-> v, err |-> "None"]
Err(e) == [ok |-> FALSE, val |-> -1, err |-> e]
\* no call has returned yet
NoResult == [ok |-> FALSE, val |-> -1, err |-> "NotCalled"]

(***************************************************************************)
(* Square.                                                                 *)
(***************************************************************************)
\* Square::new with the bounds test wrong: || for &&
Square_new_or(x, y) ==
    IF x < 8 \/ y < 8
    THEN Ok(BitOr(Shl4(x), y))
    ELSE Err("XYOutOfBounds")

Square_new(x, y) ==
    IF x < 8 /\ y < 8
    THEN Ok(BitOr(Shl4(x), y))
    ELSE Err("XYOutOfBounds")

Square_x(val) == Shr4(val)

Square_y(val) == BitAnd(val, 15)

Square_index(val) == (Square_y(val) * 8 + Square_x(val)) % (U8Max + 1)

\* Square::from_index with the bounds test off by one: <= for <
Square_from_index_le(index) ==
    IF index <= 64
    THEN Square_new(index % 8, index \div 8)
    ELSE Err("IndexOutOfBounds")

Square_from_index(index) ==
    IF index < 64
    THEN Square_new(index % 8, index \div 8)
    ELSE Err("IndexOutOfBounds")

(***************************************************************************)
(* chars and strings.                                                      *)
(***************************************************************************)
\* char::len_utf8
len_utf8(c) ==
    IF c < 128 THEN 1 ELSE IF c < 2048 THEN 2 ELSE IF c < 65536 THEN 3 ELSE 4

RECURSIVE str_len(_)
\* str::len: the length in bytes of the UTF-8 encoding
str_len(s) == IF s = <<>> THEN 0 ELSE len_utf8(Head(s)) + str_len(Tail(s))

\* char::to_ascii_lowercase
to_ascii_lowercase(c) == IF c >= 65 /\ c <= 90 THEN c + 32 ELSE c

\* char::is_ascii_digit
is_ascii_digit(c) == c >= 48 /\ c <= 57

\* char::to_digit(10)
to_digit(c) == IF is_ascii_digit(c) THEN Ok(c - 48) ELSE Err("None")

\* Iterator::nth on Chars: consumes n + 1 chars and yields the last of them;
\* [some, ch, rest] with rest the chars left in the iterator
nth(chars, n) ==
    IF Len(chars) > n
    THEN [some |-> TRUE, ch |-> chars[n + 1], rest |-> SubSeq(chars, n + 2, Len(chars))]
    ELSE [some |-> FALSE, ch |-> -1, rest |-> <<>>]

\* the checks and the arithmetic of from_string once file and rank are read
ParseFileRank(file, rank) ==
    IF file < 97 \/ file > 104
    THEN Err("InvalidString")
    ELSE IF ~is_ascii_digit(rank) \/ rank < 49 \/ rank > 56
    THEN Err("InvalidString")
    ELSE LET f == (file % (U8Max + 1)) - 97
             d == to_digit(rank)
         IN  IF ~d.ok THEN Err("InvalidString")
             ELSE Square_new(f, (d.val % (U8Max + 1)) - 1)

\* Square::from_string with the length test weakened: < 2 for != 2
Square_from_string_lt(s) ==
    IF str_len(s) < 2
    THEN Err("InvalidString")
    ELSE LET first == nth(s, 0) IN
         IF ~first.some THEN Err("InvalidString")
         ELSE LET second == nth(first.rest, 1) IN
              IF ~second.some THEN Err("InvalidString")
              ELSE ParseFileRank(to_ascii_lowercase(first.ch), second.ch)

Square_from_string(s) ==
    IF str_len(s) # 2
    THEN Err("InvalidString")
    ELSE LET first == nth(s, 0) IN
         IF ~first.some THEN Err("InvalidString")
         ELSE LET second == nth(first.rest, 1) IN
              IF ~second.some THEN Err("InvalidString")
              ELSE ParseFileRank(to_ascii_lowercase(first.ch), second.ch)

\* Display for Square with the coordinates swapped: y for the file, x for the rank
Square_fmt_swapped(val) ==
    << (Square_y(val) + 97) % (U8Max + 1), (Square_x(val) + 49) % (U8Max + 1) >>

\* impl fmt::Display for Square: the two chars written
Square_fmt(val) ==
    << (Square_x(val) + 97) % (U8Max + 1), (Square_y(val) + 49) % (U8Max + 1) >>

(***************************************************************************)
(* Inputs of the Square operations.                                        *)
(***************************************************************************)
\* '/'..':', '@'..'I', '`'..'i' (the digits and the file letters of both
\* cases with the chars next to them), U+00E9 (2 bytes), U+20AC (3 bytes)
Alphabet == (47..58) \cup (64..73) \cup (96..105) \cup {233, 8364}

\* chars of the strings longer than 2: 'a', 'i', 'H', '1', '9', U+00E9
EdgeChars == {97, 105, 72, 49, 57, 233}

StringInputs ==
    UNION {[1..n -> Alphabet] : n \in 0..2}
        \cup UNION {[1..n -> EdgeChars] : n \in 3..MaxLen}

\* the 64 squares, each by the coordinates it is built from
Coordinates == (0..7) \X (0..7)

(***************************************************************************)
(* u64.                                                                    *)
(***************************************************************************)
BitPositions == 1..U64Bits

\* 0u64
U64Zero == [i \in BitPositions |-> 0]

\* 1 << n on a u64, n < 64 (index() of every square is)
U64Shl1(n) == [i \in BitPositions |-> IF i = n + 1 THEN 1 ELSE 0]

\* a & b
U64And(a, b) == [i \in BitPositions |-> a[i] * b[i]]

\* a | b
U64Or(a, b) == [i \in BitPositions |-> IF a[i] = 1 \/ b[i] = 1 THEN 1 ELSE 0]

\* !a
U64Not(a) == [i \in BitPositions |-> 1 - a[i]]

RECURSIVE SumBits(_, _)
\* the sum of the n lowest bits of a
SumBits(a, n) == IF n = 0 THEN 0 ELSE a[n] + SumBits(a, n - 1)

\* u64::count_ones
count_ones(a) == SumBits(a, U64Bits)

\* u64::count_zeros
count_zeros(a) == U64Bits - SumBits(a, U64Bits)

\* u64::trailing_zeros
trailing_zeros(a) ==
    IF a = U64Zero THEN U64Bits
    ELSE (CHOOSE i \in BitPositions : a[i] = 1 /\ \A j \in 1..(i - 1) : a[j] = 0) - 1

\* u64::leading_zeros
leading_zeros(a) ==
    IF a = U64Zero THEN U64Bits
    ELSE U64Bits - (CHOOSE i \in BitPositions : a[i] = 1 /\ \A j \in (i + 1)..U64Bits : a[j] = 0)

(***************************************************************************)
(* Bitboard.                                                               *)
(***************************************************************************)
\* Bitboard::new
Bitboard_new == U64Zero

\* impl From<u64> for Bitboard
Bitboard_from(raw) == raw

Bitboard_get(b, sq) == U64And(b, U64Shl1(Square_index(sq))) # U64Zero

\* Bitboard::set returning the membership after the mutation, not before
Bitboard_set_new(b, sq) ==
    LET after == U64Or(b, U64Shl1(Square_index(sq)))
    IN  [bits |-> after, old |-> Bitboard_get(after, sq)]

\* Bitboard::set: the board after the call and the bool returned
Bitboard_set(b, sq) ==
    LET old == Bitboard_get(b, sq)
    IN  [bits |-> U64Or(b, U64Shl1(Square_index(sq))), old |-> old]

\* Bitboard::clear with the mask not complemented
Bitboard_clear_mask(b, sq) ==
    LET old == Bitboard_get(b, sq)
    IN  [bits |-> U64And(b, U64Shl1(Square_index(sq))), old |-> old]

\* Bitboard::clear: the board after the call and the bool returned
Bitboard_clear(b, sq) ==
    LET old == Bitboard_get(b, sq)
    IN  [bits |-> U64And(b, U64Not(U64Shl1(Square_index(sq)))), old |-> old]

\* Bitboard::put: the board after the call (put returns nothing)
Bitboard_put(b, sq, value) ==
    IF value THEN Bitboard_set(b, sq).bits ELSE Bitboard_clear(b, sq).bits

\* Bitboard::count counting the zeros
Bitboard_count_zeros(b) == count_zeros(b)

Bitboard_count(b) == count_ones(b)

Bitboard_any(b) == b # U64Zero

Bitboard_none(b) == b = U64Zero

\* Square::is_ok, called by try_from and defined nowhere in the sources: every
\* Square the constructors produce is valid, with both coordinates in 0..7
Square_is_ok(sq) == Square_x(sq) < 8 /\ Square_y(sq) < 8

\* impl TryFrom<Square> for Bitboard: Ok carries the bits of the board
Bitboard_try_from(sq) ==
    IF Square_is_ok(sq)
    THEN Ok(U64Shl1(Square_index(sq)))
    ELSE Err("Square is not ok")

\* try_into taking the square from the wrong end of the word
Bitboard_try_into_leading(b) ==
    IF Bitboard_count(b) = 1
    THEN Square_from_index(leading_zeros(b))
    ELSE Err("Bitboard does not contain exactly one square")

\* impl TryInto<Square> for Bitboard: the Ok of the code holds what from_index
\* returns, which is Ok of a square for every board of one bit
Bitboard_try_into(b) ==
    IF Bitboard_count(b) = 1
    THEN Square_from_index(trailing_zeros(b))
    ELSE Err("Bitboard does not contain exactly one square")

RECURSIVE FmtLoopMsb(_, _, _)
\* the loop of Display for Bitboard testing the bits from the most significant
FmtLoopMsb(b, i, s) ==
    IF i = U64Bits THEN s
    ELSE FmtLoopMsb(b, i + 1,
             s \o << IF U64And(b, U64Shl1(U64Bits - 1 - i)) # U64Zero THEN 49 ELSE 48 >>
               \o << IF i % 8 = 7 THEN 10 ELSE 32 >>)

\* Display for Bitboard with the bit order reversed
Bitboard_fmt_msb(b) == FmtLoopMsb(b, 0, <<>>)

RECURSIVE FmtLoop(_, _, _)
\* for i in 0..64, from iteration i on, s the String built so far: push '1' or
\* '0' for bit i, then '\n' after every eighth cell and ' ' after the others
FmtLoop(b, i, s) ==
    IF i = U64Bits THEN s
    ELSE FmtLoop(b, i + 1,
             s \o << IF U64And(b, U64Shl1(i)) # U64Zero THEN 49 ELSE 48 >>
               \o << IF i % 8 = 7 THEN 10 ELSE 32 >>)

\* impl fmt::Display for Bitboard: the String written (self & (1 << i) is
\* read as self.bits & (1 << i))
Bitboard_fmt(b) == FmtLoop(b, 0, <<>>)

(***************************************************************************)
(* The Square operations: one call each, on an input drawn by Init.        *)
(***************************************************************************)
Init ==
    /\ pc = "call"
    /\ \/ fn = "new" /\ arg \in U8 \X U8
       \/ fn = "from_index" /\ arg \in {<<i>> : i \in U8}
       \/ fn = "from_string" /\ arg \in StringInputs
       \/ fn = "display" /\ arg \in Coordinates
    /\ ret = NoResult
    /\ retb = FALSE
    /\ text = <<>>
    /\ bits = Bitboard_new
    /\ prev = Bitboard_new

CallNew ==
    /\ pc = "call" /\ fn = "new"
    /\ ret' = Square_new(arg[1], arg[2])
    /\ pc' = "done"
    /\ UNCHANGED <<fn, arg, retb, text, bits, prev>>

CallFromIndex ==
    /\ pc = "call" /\ fn = "from_index"
    /\ ret' = Square_from_index(arg[1])
    /\ pc' = "done"
    /\ UNCHANGED <<fn, arg, retb, text, bits, prev>>

CallFromString ==
    /\ pc = "call" /\ fn = "from_string"
    /\ ret' = Square_from_string(arg)
    /\ pc' = "done"
    /\ UNCHANGED <<fn, arg, retb, text, bits, prev>>

\* format!("{}", Square::new(x, y).unwrap())
CallDisplay ==
    /\ pc = "call" /\ fn = "display"
    /\ ret' = Square_new(arg[1], arg[2])
    /\ text' = Square_fmt(ret'.val)
    /\ pc' = "shown"
    /\ UNCHANGED <<fn, arg, retb, bits, prev>>

\* Square::from_string(&sq.to_string()), sq the square displayed
CallParseDisplayed ==
    /\ pc = "shown"
    /\ fn' = "from_string_of_display"
    /\ ret' = Square_from_string(text)
    /\ pc' = "done"
    /\ UNCHANGED <<arg, retb, text, bits, prev>>

Next ==
    \/ CallNew
    \/ CallFromIndex
    \/ CallFromString
    \/ CallDisplay
    \/ CallParseDisplayed

Spec == Init /\ [][Next]_vars


(***************************************************************************)
(* Properties of the Square operations, checked under Spec.                *)
(***************************************************************************)
\* the file letters 'a'..'h' and the rank digits '1'..'8', by coordinate
FileLetters == <<97, 98, 99, 100, 101, 102, 103, 104>>
RankDigits == <<49, 50, 51, 52, 53, 54, 55, 56>>

\* the call of fn has returned
Returned(f) == pc = "done" /\ fn = f

\* C1: parsing the Display string of any of the 64 squares gives back Ok of
\* that square.
C1_TextRoundTrip ==
    Returned("from_string_of_display") =>
        ret = Ok(Square_new(arg[1], arg[2]).val)

\* a 2-char string: a file letter of either case, then a rank digit
WellFormed(s) ==
    /\ Len(s) = 2
    /\ s[1] \in (97..104) \cup (65..72)
    /\ s[2] \in 49..56

\* C2: from_string accepts every string [a-hA-H][1-8] with x the position of
\* the lower-cased file letter in a..h and y the rank digit minus 1.
C2_AcceptsAlgebraic ==
    (Returned("from_string") /\ WellFormed(arg)) =>
        /\ ret.ok
        /\ Square_x(ret.val) = (IF arg[1] >= 97 THEN arg[1] - 97 ELSE arg[1] - 65)
        /\ Square_y(ret.val) = arg[2] - 49

\* length not 2 (in chars or in bytes), file outside a..h once lower-cased,
\* or rank outside 1..8
Malformed(s) ==
    \/ Len(s) # 2
    \/ str_len(s) # 2
    \/ (IF s[1] \in 65..90 THEN s[1] + 32 ELSE s[1]) \notin 97..104
    \/ s[2] \notin 49..56

\* C3: from_string returns Err(InvalidString), never Ok and no other error,
\* on every malformed input.
C3_RejectsMalformed ==
    (Returned("from_string") /\ Malformed(arg)) => ret = Err("InvalidString")

\* "a11" has been rejected
C3_Witness ==
    /\ Returned("from_string")
    /\ arg = <<97, 49, 49>>
    /\ Malformed(arg)
    /\ ret = Err("InvalidString")

\* C4: new(x, y) is Ok of a square with those coordinates exactly when
\* x < 8 and y < 8, and Err(XYOutOfBounds) for every other pair of bytes.
C4_NewExact ==
    Returned("new") =>
        IF arg[1] \in 0..7 /\ arg[2] \in 0..7
        THEN /\ ret.ok
             /\ Square_x(ret.val) = arg[1]
             /\ Square_y(ret.val) = arg[2]
        ELSE ret = Err("XYOutOfBounds")

\* new(7, 5) has returned the square (7, 5)
C4_Witness ==
    /\ Returned("new")
    /\ arg = <<7, 5>>
    /\ ret.ok
    /\ Square_x(ret.val) = 7
    /\ Square_y(ret.val) = 5

\* C5: from_index(idx) is Ok of the square (idx % 8, idx / 8), whose index()
\* is idx, for idx in 0..63, and Err(IndexOutOfBounds) for idx in 64..255.
C5_IndexRoundTrip ==
    Returned("from_index") =>
        IF arg[1] \in 0..63
        THEN /\ ret.ok
             /\ Square_x(ret.val) = arg[1] % 8
             /\ Square_y(ret.val) = arg[1] \div 8
             /\ Square_index(ret.val) = arg[1]
             /\ Square_index(ret.val) \in 0..63
        ELSE ret = Err("IndexOutOfBounds")

\* from_index(63) has returned the square of index 63
C5_Witness ==
    /\ Returned("from_index")
    /\ arg = <<63>>
    /\ ret.ok
    /\ Square_index(ret.val) = 63

\* C6: the Display string of a square is its file letter, lower-case, then
\* its rank digit: 2 chars; the corners display as a1, h1, a8 and h8.
C6_DisplayAlgebraic ==
    pc = "shown" =>
        /\ Len(text) = 2
        /\ text = <<FileLetters[arg[1] + 1], RankDigits[arg[2] + 1]>>
        /\ Square_index(ret.val) = 0 => text = <<97, 49>>
        /\ Square_index(ret.val) = 7 => text = <<104, 49>>
        /\ Square_index(ret.val) = 56 => text = <<97, 56>>
        /\ Square_index(ret.val) = 63 => text = <<104, 56>>

\* the square of index 7 has been displayed as "h1"
C6_Witness ==
    /\ pc = "shown"
    /\ Square_index(ret.val) = 7
    /\ text = <<104, 49>>


(***************************************************************************)
(* The Bitboard operations: any sequence of calls on one board.            *)
(***************************************************************************)
\* the u64 with exactly the bits of S set
Word(S) == [i \in BitPositions |-> IF (i - 1) \in S THEN 1 ELSE 0]

\* raw values handed to Bitboard::from
RawInputs == {Word(0..63), Word({63}), Word({0, 63}), Word(32..63), Word({5, 20, 36})}

\* indices of the squares the operations are called with: the corners first
SampleIndex == <<0, 63, 7, 56, 27, 36, 9, 54>>

SquareInputs == {Square_from_index(SampleIndex[k]).val : k \in 1..MaxSquares}

\* all 64 squares
AllSquares == {Square_new(c[1], c[2]).val : c \in Coordinates}

BoardInit ==
    /\ pc = "board"
    /\ \/ fn = "new" /\ bits = Bitboard_new
       \/ fn = "from" /\ bits \in {Bitboard_from(raw) : raw \in RawInputs}
    /\ arg = <<>>
    /\ ret = NoResult
    /\ retb = FALSE
    /\ text = <<>>
    /\ prev = bits

DoSet(sq) ==
    /\ pc = "board"
    /\ fn' = "set" /\ arg' = <<sq>>
    /\ prev' = bits
    /\ bits' = Bitboard_set(bits, sq).bits
    /\ retb' = Bitboard_set(bits, sq).old
    /\ UNCHANGED <<pc, ret, text>>

DoClear(sq) ==
    /\ pc = "board"
    /\ fn' = "clear" /\ arg' = <<sq>>
    /\ prev' = bits
    /\ bits' = Bitboard_clear(bits, sq).bits
    /\ retb' = Bitboard_clear(bits, sq).old
    /\ UNCHANGED <<pc, ret, text>>

DoPut(sq, value) ==
    /\ pc = "board"
    /\ fn' = "put" /\ arg' = <<sq, IF value THEN 1 ELSE 0>>
    /\ prev' = bits
    /\ bits' = Bitboard_put(bits, sq, value)
    /\ UNCHANGED <<pc, ret, retb, text>>

\* Bitboard::try_from(sq): the board the calls go on with is the one built
DoTryFrom(sq) ==
    /\ pc = "board"
    /\ fn' = "try_from" /\ arg' = <<sq>>
    /\ prev' = bits
    /\ ret' = Bitboard_try_from(sq)
    /\ bits' = IF ret'.ok THEN ret'.val ELSE bits
    /\ UNCHANGED <<pc, retb, text>>

\* board.try_into()
DoTryInto ==
    /\ pc = "board"
    /\ fn' = "try_into" /\ arg' = <<>>
    /\ prev' = bits
    /\ ret' = Bitboard_try_into(bits)
    /\ UNCHANGED <<pc, bits, retb, text>>

\* format!("{}", board): the last call made on the board
DoDisplay ==
    /\ pc = "board"
    /\ fn' = "display" /\ arg' = <<>>
    /\ prev' = bits
    /\ text' = Bitboard_fmt(bits)
    /\ pc' = "printed"
    /\ UNCHANGED <<bits, ret, retb>>

BoardNext ==
    \/ \E sq \in SquareInputs : DoSet(sq)
    \/ \E sq \in SquareInputs : DoClear(sq)
    \/ \E sq \in SquareInputs, value \in BOOLEAN : DoPut(sq, value)
    \/ \E sq \in SquareInputs : DoTryFrom(sq)
    \/ DoTryInto
    \/ DoDisplay

BoardSpec == BoardInit /\ [][BoardNext]_vars


(***************************************************************************)
(* Properties of the Bitboard operations, checked under BoardSpec.         *)
(***************************************************************************)
\* get is the same on boards a and b for every square but sq
SameElsewhere(a, b, sq) ==
    \A other \in AllSquares \ {sq} : Bitboard_get(a, other) = Bitboard_get(b, other)

\* C7: a fresh board holds no square; set(sq) makes get(sq) true and
\* clear(sq) makes it false, and neither changes get of any other square.
C7_Membership ==
    /\ fn = "new" => \A sq \in AllSquares : ~Bitboard_get(bits, sq)
    /\ fn = "set" => Bitboard_get(bits, arg[1]) /\ SameElsewhere(bits, prev, arg[1])
    /\ fn = "clear" => ~Bitboard_get(bits, arg[1]) /\ SameElsewhere(bits, prev, arg[1])

\* clear(sq) has removed sq from a board that held it and another square
C7_Witness ==
    /\ fn = "clear"
    /\ Bitboard_get(prev, arg[1])
    /\ ~Bitboard_get(bits, arg[1])
    /\ \E other \in AllSquares \ {arg[1]} : Bitboard_get(bits, other)

\* C8: set and clear return get(sq) as it was before the call; a second
\* set(sq) in a row returns true and a second clear(sq) in a row returns
\* false, each leaving the board as the first call left it.
C8_PriorValueIdempotent ==
    [][ /\ fn' \in {"set", "clear"} => retb' = Bitboard_get(bits, arg'[1])
        /\ (fn = "set" /\ fn' = "set" /\ arg' = arg) =>
               retb' = TRUE /\ bits' = bits /\ Bitboard_get(bits', arg[1])
        /\ (fn = "clear" /\ fn' = "clear" /\ arg' = arg) =>
               retb' = FALSE /\ bits' = bits /\ ~Bitboard_get(bits', arg[1])
      ]_vars

\* set(sq) on a board that held sq has returned true and changed nothing
C8_Witness ==
    /\ fn = "set"
    /\ Bitboard_get(prev, arg[1])
    /\ retb = TRUE
    /\ bits = prev

\* C9: count() is the number of squares with get true, between 0 and 64;
\* none() is count() = 0 and any() is count() > 0.
C9_Cardinality ==
    pc = "board" =>
        /\ Bitboard_count(bits) = Cardinality({sq \in AllSquares : Bitboard_get(bits, sq)})
        /\ Bitboard_count(bits) \in 0..64
        /\ Bitboard_none(bits) = (Bitboard_count(bits) = 0)
        /\ Bitboard_any(bits) = (Bitboard_count(bits) > 0)

\* a clear has left 62 squares on the board built from the raw value of all ones
C9_Witness ==
    /\ fn = "clear"
    /\ Bitboard_count(bits) = 62
    /\ Bitboard_any(bits)
    /\ ~Bitboard_none(bits)

\* the error of try_into
NotSingleton == Err("Bitboard does not contain exactly one square")

\* C10: try_from(sq) is Ok of the board with exactly bit index() of sq set,
\* try_into of that board is Ok of sq, and try_into of a board whose count()
\* is not 1 is the NotSingleton error.
C10_SingletonConversion ==
    [][ /\ fn' = "try_from" =>
               /\ ret'.ok
               /\ bits' = Word({Square_index(arg'[1])})
               /\ Bitboard_count(bits') = 1
        /\ (fn = "try_from" /\ fn' = "try_into") => ret' = Ok(arg[1])
        /\ (fn' = "try_into" /\ Bitboard_count(bits) # 1) => ret' = NotSingleton
      ]_vars

\* try_into has given back the square h8 that the board was built from
C10_Witness ==
    /\ fn = "try_into"
    /\ bits = Word({63})
    /\ ret = Square_new(7, 7)


\* the positions of the newlines of s
Newlines(s) == {i \in DOMAIN s : s[i] = 10}

\* line r (from 0) of s without its newline: the chars after the newline
\* before it, up to its own newline
Line(s, r) ==
    LET last == CHOOSE n \in Newlines(s) : Cardinality({m \in Newlines(s) : m < n}) = r
        before == {m \in Newlines(s) : m < last}
        first == IF before = {} THEN 1
                 ELSE 1 + CHOOSE m \in before : \A k \in before : k <= m
    IN  SubSeq(s, first, last - 1)

\* C11: the Display string of a board is 8 newline-terminated lines of 8
\* cells '0' or '1' with one space between cells; the cell of line r, column
\* c is bit r * 8 + c, '1' exactly when get of the square of that index is true.
C11_DisplayGrid ==
    pc = "printed" =>
        /\ Cardinality(Newlines(text)) = 8
        /\ Len(text) \in Newlines(text)
        /\ \A r \in 0..7 :
               LET row == Line(text, r) IN
               /\ Len(row) = 15
               /\ \A c \in 0..6 : row[2 * c + 2] = 32
               /\ \A c \in 0..7 :
                      /\ row[2 * c + 1] \in {48, 49}
                      /\ (row[2 * c + 1] = 49)
                             = Bitboard_get(bits, Square_from_index(r * 8 + c).val)

\* a board holding a1 and h1 but not a8 has been displayed: the first line
\* starts and ends with '1', the last line starts with '0'
C11_Witness ==
    /\ pc = "printed"
    /\ Bitboard_get(bits, Square_new(0, 0).val)
    /\ Bitboard_get(bits, Square_new(7, 0).val)
    /\ ~Bitboard_get(bits, Square_new(0, 7).val)
    /\ SubSeq(text, 1, 2) = <<49, 32>>
    /\ SubSeq(text, 15, 16) = <<49, 10>>
    /\ text[113] = 48

=============================================================================
